---- MODULE Spec2Model ----
(***************************************************************************)
(* A model of trombone_organizer.py: the ChartDataTable edit session.      *)
(*                                                                         *)
(* Text is a sequence of one-character strings, so that str.strip,         *)
(* str.splitlines, str.split, int(), float() and the string comparison     *)
(* used by list.sort are computed, not assumed.  A JSON/Python value is a  *)
(* tagged record: [t |-> "str", s |-> text], [t |-> "int", i |-> n],       *)
(* [t |-> "float", f |-> tenths], [t |-> "list", l |-> <<tenths, ...>>],   *)
(* [t |-> "null"] (Python None).  Floats are kept in tenths: the texts the *)
(* model feeds to float() have at most one fractional digit.               *)
(***************************************************************************)
EXTENDS Integers, Sequences, FiniteSets, TLC

\* ------------------------------------------------------------------ bounds
\* Number of user operations (header click, cell edit, "Apply edits",
\* out-of-band file change) explored after construction.
MaxOps == 3
\* The same, for the specification SpecShort.
MaxShortOps == 2
\* The same, for the specification SortSpec.
MaxSortOps == 2
\* The same, for the specification LoadSpec.
MaxLoadOps == 1

\* ------------------------------------------------------------------- text
DIR_KEY == "Directory"

NL == "\n"
Digits == {"0", "1", "2", "3", "4", "5", "6", "7", "8", "9"}
Whitespace == {" ", NL}

\* Code points of the characters the model uses (str comparison is by code point).
Ord(c) ==
    CASE c = NL  -> 10
      [] c = " " -> 32
      [] c = "+" -> 43
      [] c = "-" -> 45
      [] c = "." -> 46
      [] c = "0" -> 48
      [] c = "1" -> 49
      [] c = "2" -> 50
      [] c = "3" -> 51
      [] c = "4" -> 52
      [] c = "5" -> 53
      [] c = "6" -> 54
      [] c = "7" -> 55
      [] c = "8" -> 56
      [] c = "9" -> 57
      [] c = "N" -> 78
      [] c = "a" -> 97
      [] c = "b" -> 98
      [] c = "c" -> 99
      [] c = "e" -> 101
      [] c = "f" -> 102
      [] c = "n" -> 110
      [] c = "o" -> 111
      [] c = "r" -> 114
      [] c = "x" -> 120

DigitVal(c) == Ord(c) - 48
DigitChar(n) == CHOOSE c \in Digits : DigitVal(c) = n

\* Python's str < str.
RECURSIVE StrLess(_, _)
StrLess(s, u) ==
    IF u = <<>> THEN FALSE
    ELSE IF s = <<>> THEN TRUE
    ELSE IF Head(s) = Head(u) THEN StrLess(Tail(s), Tail(u))
    ELSE Ord(Head(s)) < Ord(Head(u))

\* str.strip(): leading and trailing whitespace removed.
RECURSIVE LStrip(_)
LStrip(s) ==
    IF s # <<>> /\ Head(s) \in Whitespace THEN LStrip(Tail(s)) ELSE s

RECURSIVE RStrip(_)
RStrip(s) ==
    IF s # <<>> /\ s[Len(s)] \in Whitespace THEN RStrip(SubSeq(s, 1, Len(s) - 1)) ELSE s

Strip(s) == RStrip(LStrip(s))

\* len(s.splitlines()): a trailing line break opens no further line.
NumLines(s) ==
    IF s = <<>> THEN 0
    ELSE Cardinality({i \in 1..Len(s) : s[i] = NL})
         + (IF s[Len(s)] = NL THEN 0 ELSE 1)

\* s.split(): the maximal runs of non-whitespace characters.
RECURSIVE SplitFrom(_, _)
SplitFrom(s, cur) ==
    IF s = <<>> THEN (IF cur = <<>> THEN <<>> ELSE <<cur>>)
    ELSE IF Head(s) \in Whitespace
         THEN (IF cur = <<>> THEN <<>> ELSE <<cur>>) \o SplitFrom(Tail(s), <<>>)
         ELSE SplitFrom(Tail(s), Append(cur, Head(s)))

Split(s) == SplitFrom(s, <<>>)

\* ------------------------------------------------------------ conversions
ValueError == [err |-> "ValueError"]
TypeError == [err |-> "TypeError"]
IsError(x) == "err" \in DOMAIN x

None == [t |-> "null"]
StrVal(s) == [t |-> "str", s |-> s]
IntVal(n) == [t |-> "int", i |-> n]
FloatVal(f) == [t |-> "float", f |-> f]
ListVal(l) == [t |-> "list", l |-> l]

AllDigits(s) == s # <<>> /\ \A i \in 1..Len(s) : s[i] \in Digits

RECURSIVE DigitsToNat(_, _)
DigitsToNat(s, acc) ==
    IF s = <<>> THEN acc ELSE DigitsToNat(Tail(s), 10 * acc + DigitVal(Head(s)))

\* int(s) for an already stripped s: an optional sign and decimal digits.
ParseInt(s) ==
    LET signed == s # <<>> /\ Head(s) \in {"+", "-"}
        body == IF signed THEN Tail(s) ELSE s
    IN IF ~AllDigits(body) THEN ValueError
       ELSE IF signed /\ Head(s) = "-" THEN IntVal(0 - DigitsToNat(body, 0))
       ELSE IntVal(DigitsToNat(body, 0))

\* float(s) in tenths: an optional sign, digits, and at most one fractional digit.
ParseFloat(s) ==
    LET signed == s # <<>> /\ Head(s) \in {"+", "-"}
        body == IF signed THEN Tail(s) ELSE s
        dot == {i \in 1..Len(body) : body[i] = "."}
        ip == IF dot = {} THEN body ELSE SubSeq(body, 1, (CHOOSE i \in dot : TRUE) - 1)
        fp == IF dot = {} THEN <<>>
              ELSE SubSeq(body, (CHOOSE i \in dot : TRUE) + 1, Len(body))
        ok == /\ Cardinality(dot) <= 1
              /\ AllDigits(ip \o fp)
              /\ Len(fp) <= 1
        mag == 10 * DigitsToNat(ip, 0) + DigitsToNat(fp, 0)
    IN IF ~ok THEN ValueError
       ELSE IF signed /\ Head(s) = "-" THEN FloatVal(0 - mag)
       ELSE FloatVal(mag)

one_line_from_str(s) ==
    IF NumLines(s) > 1 THEN ValueError ELSE StrVal(s)

positive_int_from_str(s) ==
    IF s = <<>> THEN ValueError
    ELSE LET n == ParseInt(s)
         IN IF IsError(n) THEN n
            ELSE IF n.i < 0 THEN ValueError
            ELSE n

positive_float_from_str(s) ==
    IF s = <<>> THEN ValueError
    ELSE LET n == ParseFloat(s)
         IN IF IsError(n) THEN n
            ELSE IF n.f < 0 THEN ValueError
            ELSE n

positive_int_or_none_from_str(s) ==
    IF s = <<>> THEN None ELSE positive_int_from_str(s)

difficulty_from_str(s) ==
    IF s = <<>> THEN ValueError
    ELSE LET d == ParseInt(s)
         IN IF IsError(d) THEN d
            ELSE IF d.i <= 0 \/ d.i > 10 THEN ValueError
            ELSE d

note_color_from_str(s) ==
    IF s = <<>> THEN None
    ELSE LET vals_str == Split(s)
         IN IF Len(vals_str) # 3 THEN ValueError
            ELSE LET vals == [i \in 1..3 |-> ParseFloat(vals_str[i])]
                 IN IF \E i \in 1..3 : IsError(vals[i]) THEN ValueError
                    ELSE IF \E i \in 1..3 : vals[i].f < 0 \/ vals[i].f > 10
                         THEN ValueError
                    ELSE ListVal([i \in 1..3 |-> vals[i].f])

\* Python's conversion of a stored value to the text a Treeview cell shows.
RECURSIVE NatText(_)
NatText(n) ==
    IF n < 10 THEN <<DigitChar(n)>> ELSE Append(NatText(n \div 10), DigitChar(n % 10))

IntText(n) == IF n < 0 THEN <<"-">> \o NatText(0 - n) ELSE NatText(n)

FloatText(f) ==
    IF f < 0 THEN <<"-">> \o NatText((0 - f) \div 10) \o <<".", DigitChar((0 - f) % 10)>>
    ELSE NatText(f \div 10) \o <<".", DigitChar(f % 10)>>

RECURSIVE JoinFloats(_)
JoinFloats(l) ==
    IF l = <<>> THEN <<>>
    ELSE IF Len(l) = 1 THEN FloatText(l[1])
    ELSE FloatText(l[1]) \o <<" ">> \o JoinFloats(Tail(l))

ToText(v) ==
    CASE v.t = "str" -> v.s
      [] v.t = "int" -> IntText(v.i)
      [] v.t = "float" -> FloatText(v.f)
      [] v.t = "list" -> JoinFloats(v.l)
      [] v.t = "null" -> <<"N", "o", "n", "e">>

\* ----------------------------------------------------------------- schema
\* The ColSpec list main() hands to ChartDataTable, one column per distinct
\* from_str converter (the columns shortName, name, author, genre share
\* trackRef's converter, timesig shares year's, endpoint and savednotespacing
\* share tempo's, note_color_end shares note_color_start's).  A column is
\* addressed by its position, as Tk's "#n" does.
cols ==
    << [key |-> DIR_KEY, from_str |-> "None"],
       [key |-> "trackRef", from_str |-> "one_line_from_str"],
       [key |-> "year", from_str |-> "positive_int_from_str"],
       [key |-> "description", from_str |-> "None"],
       [key |-> "difficulty", from_str |-> "difficulty_from_str"],
       [key |-> "tempo", from_str |-> "positive_float_from_str"],
       [key |-> "note_color_start", from_str |-> "note_color_from_str"],
       [key |-> "UNK1", from_str |-> "positive_int_or_none_from_str"] >>

ColIds == 1..Len(cols)

get_column_specification(column) == cols[column]
get_column_heading(col) == cols[col].key

\* col_spec.from_str(s); calling the absent converter (None) raises TypeError.
CallFromStr(col_spec, s) ==
    CASE col_spec.from_str = "one_line_from_str" -> one_line_from_str(s)
      [] col_spec.from_str = "positive_int_from_str" -> positive_int_from_str(s)
      [] col_spec.from_str = "positive_float_from_str" -> positive_float_from_str(s)
      [] col_spec.from_str = "positive_int_or_none_from_str" ->
            positive_int_or_none_from_str(s)
      [] col_spec.from_str = "difficulty_from_str" -> difficulty_from_str(s)
      [] col_spec.from_str = "note_color_from_str" -> note_color_from_str(s)
      [] col_spec.from_str = "None" -> TypeError

\* ------------------------------------------------------------- dictionaries
EmptyDict == [k \in {} |-> None]

DictGet(d, key, default) == IF key \in DOMAIN d THEN d[key] ELSE default

\* Mutant: the written document holds the updates alone.
DictUpdateDropsRest(d, u) == u

\* d.update(u)
DictUpdate(d, u) ==
    [k \in DOMAIN d \cup DOMAIN u |-> IF k \in DOMAIN u THEN u[k] ELSE d[k]]

\* d[key] = v
DictSet(d, key, v) ==
    [k \in DOMAIN d \cup {key} |-> IF k = key THEN v ELSE d[k]]

\* for key in ks: del d[key]
DictDel(d, ks) == [k \in DOMAIN d \ ks |-> d[k]]

\* ------------------------------------------------------------------ files
\* The state of <charts_dir>/<entry>: "file" is an entry that is no directory,
\* "missing" a directory without song.tmb, "badjson" a song.tmb json.load
\* rejects, "nonobject" a song.tmb holding JSON that is no object, "object" a
\* song.tmb holding the JSON object doc.
File(kind, doc) == [kind |-> kind, doc |-> doc]
NoFile(kind) == File(kind, EmptyDict)

\* Texts the model types into cells.
T_empty == <<>>
T_10 == <<"1", "0">>
T_11 == <<"1", "1">>
T_foo_bar == <<"f", "o", "o", " ", "b", "a", "r">>
T_0_1_0 == <<"0", " ", "1", " ", "0">>
T_two_lines == <<"a", NL, "b">>

RawTexts == {T_empty, T_10, T_11, T_foo_bar, T_0_1_0, T_two_lines}

\* The documents on disk when the program starts.  "notes" is a key outside
\* the schema.
DocA ==
    [trackRef |-> StrVal(<<"b">>), year |-> IntVal(10), difficulty |-> IntVal(10),
     tempo |-> FloatVal(110), note_color_start |-> ListVal(<<0, 10, 0>>),
     UNK1 |-> IntVal(0), notes |-> StrVal(<<"x">>)]

DocB ==
    [trackRef |-> StrVal(<<"a">>), year |-> IntVal(10),
     description |-> StrVal(T_foo_bar), notes |-> StrVal(<<"x">>)]

Root ==
    [e \in {"a", "b", "c"} |->
        CASE e = "a" -> File("object", DocA)
          [] e = "b" -> File("object", DocB)
          [] e = "c" -> NoFile("missing")]

\* A directory of three well-formed records, for the specification SortSpec.
DocC == [trackRef |-> StrVal(<<"a">>), year |-> IntVal(11), notes |-> StrVal(<<"x">>)]

SortRoot ==
    [e \in {"a", "b", "c"} |->
        CASE e = "a" -> File("object", DocA)
          [] e = "b" -> File("object", DocB)
          [] e = "c" -> File("object", DocC)]

\* The orders in which Path.iterdir may list the entries of a directory.
Listings(root) ==
    {l \in [1..Cardinality(DOMAIN root) -> DOMAIN root] :
        \A e \in DOMAIN root : \E i \in DOMAIN l : l[i] = e}

ChartError(chart, severity, message) ==
    [chart |-> chart, severity |-> severity, message |-> message]

\* What an out-of-band writer may leave in a record's song.tmb.
ExternalFiles(f) ==
    { NoFile("badjson"), NoFile("nonobject"),
      File("object", DictUpdate(f.doc, [notes |-> StrVal(<<"c">>), year |-> IntVal(11)])) }

\* Mutant: the loop ends at the first entry it reports (break for continue).
RECURSIVE read_chart_data_stops_at_error(_, _)
read_chart_data_stops_at_error(l, root) ==
    IF l = <<>> THEN [dirs |-> <<>>, data |-> EmptyDict, errors |-> <<>>]
    ELSE LET chart_dir == l[Len(l)]
             f == root[chart_dir]
             r == read_chart_data_stops_at_error(SubSeq(l, 1, Len(l) - 1), root)
         IN IF r.errors # <<>> \/ f.kind = "file" THEN r
            ELSE IF f.kind = "object"
            THEN [r EXCEPT !.dirs = Append(@, chart_dir),
                           !.data = DictSet(@, chart_dir, f.doc)]
            ELSE [r EXCEPT !.errors = Append(@,
                     ChartError(chart_dir, IF f.kind = "missing" THEN "Warning" ELSE "Error",
                                "song skipped."))]

\* ChartDataTable._read_chart_data over the listing l of the directory root:
\* the records in insertion order, the record map and the errors.
RECURSIVE read_chart_data(_, _)
read_chart_data(l, root) ==
    IF l = <<>> THEN [dirs |-> <<>>, data |-> EmptyDict, errors |-> <<>>]
    ELSE LET chart_dir == l[Len(l)]
             f == root[chart_dir]
             r == read_chart_data(SubSeq(l, 1, Len(l) - 1), root)
         IN CASE f.kind = "file" -> r
              [] f.kind = "missing" ->
                    [r EXCEPT !.errors = Append(@,
                        ChartError(chart_dir, "Warning", "No data file, song skipped."))]
              [] f.kind = "badjson" ->
                    [r EXCEPT !.errors = Append(@,
                        ChartError(chart_dir, "Error",
                                   "Could not read JSON data, song skipped."))]
              [] f.kind = "nonobject" ->
                    [r EXCEPT !.errors = Append(@,
                        ChartError(chart_dir, "Error",
                                   "JSON data from is not a dictionary, song skipped."))]
              [] f.kind = "object" ->
                    [r EXCEPT !.dirs = Append(@, chart_dir),
                              !.data = DictSet(@, chart_dir, f.doc)]

\* ---------------------------------------------------------------- treeview
\* The row values ChartDataTable.__init__ inserts for chart_dir.
InitialRow(chart_dir, chart_data) ==
    [c \in ColIds |->
        IF c = 1 THEN <<chart_dir>>
        ELSE IF cols[c].key \in DOMAIN chart_data THEN ToText(chart_data[cols[c].key])
        ELSE <<>>]

IsDirty(upd, dir) == \E i \in DOMAIN upd : upd[i].dir = dir
UpdatesOf(upd, dir) == upd[CHOOSE i \in DOMAIN upd : upd[i].dir = dir].updates
DirtySet(upd) == {upd[i].dir : i \in DOMAIN upd}

\* ChartDataTable._color_lines: the tag of every row.
color_lines(its, upd) ==
    [item \in {its[i] : i \in DOMAIN its} |->
        LET i == CHOOSE j \in DOMAIN its : its[j] = item
        IN IF IsDirty(upd, item) THEN "edited"
           ELSE IF i % 2 = 1 THEN "gray"
           ELSE "white"]

\* Mutant: the reverse flag is ignored.
GoesBeforeIgnoresReverse(kx, ky, reverse) == StrLess(kx, ky)

\* Mutant: x also goes before a y of equal key (an unstable sort).
GoesBeforeOrEqual(kx, ky, reverse) ==
    IF reverse THEN ~StrLess(kx, ky) ELSE ~StrLess(ky, kx)

\* list.sort(key=..., reverse=...): x goes before y only when its key is
\* strictly smaller (larger when reversed); equal keys keep their order.
GoesBefore(kx, ky, reverse) ==
    IF reverse THEN StrLess(ky, kx) ELSE StrLess(kx, ky)

\* Mutant: a row whose key equals that of a row already placed is dropped.
RECURSIVE InsertItemDropsTies(_, _, _, _, _)
InsertItemDropsTies(sorted, x, tv, col, reverse) ==
    IF sorted = <<>> THEN <<x>>
    ELSE IF tv[x][col] = tv[Head(sorted)][col] THEN sorted
    ELSE IF GoesBefore(tv[x][col], tv[Head(sorted)][col], reverse)
         THEN <<x>> \o sorted
         ELSE <<Head(sorted)>> \o InsertItemDropsTies(Tail(sorted), x, tv, col, reverse)

RECURSIVE InsertItem(_, _, _, _, _)
InsertItem(sorted, x, tv, col, reverse) ==
    IF sorted = <<>> THEN <<x>>
    ELSE IF GoesBefore(tv[x][col], tv[Head(sorted)][col], reverse)
         THEN <<x>> \o sorted
         ELSE <<Head(sorted)>> \o InsertItem(Tail(sorted), x, tv, col, reverse)

RECURSIVE sort_by_column(_, _, _, _)
sort_by_column(its, tv, col, reverse) ==
    IF its = <<>> THEN <<>>
    ELSE InsertItem(sort_by_column(SubSeq(its, 1, Len(its) - 1), tv, col, reverse),
                    its[Len(its)], tv, col, reverse)

\* ------------------------------------------------------------------ state
VARIABLES
    disk,                  \* the files under charts_dir, by directory entry
    chart_data_by_dir,     \* self._chart_data_by_dir: the records read at load
    errors,                \* the errors list of the latest load or apply_edits
    items,                 \* the Treeview's rows, top to bottom
    treeview,              \* the text of every cell: treeview[row][col]
    tags,                  \* the tag of every row
    chart_updates_by_dir,  \* self._chart_updates_by_dir, in insertion order
    sorted_column,         \* self._sorted_column (0 is None)
    sorted_reverse,        \* self._sorted_reverse
    ops_left,              \* operations still explored
    last                   \* the latest operation and the branch it took

vars == <<disk, chart_data_by_dir, errors, items, treeview, tags,
          chart_updates_by_dir, sorted_column, sorted_reverse, ops_left, last>>

\* was_pending: the edited cell had a pending entry (an edit), some record was
\* dirty (apply_edits), before the operation.
Op(op, outcome, was_pending) ==
    [op |-> op, outcome |-> outcome, was_pending |-> was_pending]

\* ChartDataTable.__init__ over one listing of the directory.
Construct(l, root, budget) ==
    LET r == read_chart_data(l, root)
    IN /\ disk = root
       /\ chart_data_by_dir = r.data
       /\ errors = r.errors
       /\ items = r.dirs
       /\ treeview = [d \in DOMAIN r.data |-> InitialRow(d, r.data[d])]
       /\ tags = color_lines(r.dirs, <<>>)
       /\ chart_updates_by_dir = <<>>
       /\ sorted_column = 0
       /\ sorted_reverse = FALSE
       /\ ops_left = budget
       /\ last = Op("init", "-", FALSE)

\* The listing Path.iterdir returns for Root.
Listing == <<"a", "b", "c">>

Init == Construct(Listing, Root, MaxOps)

\* -------------------------------------------------------------- cell edits
\* tk.Text.get("1.0", tk.END) returns the typed content and a final newline.
EditFieldGet(content) == Append(content, NL)

\* Mutant: the early return of line 315-316 is never taken.
NeverSameAsShown(new_val_str, shown) == FALSE

\* line 315: the confirmed text is the text the cell already shows.
SameAsShown(new_val_str, shown) == new_val_str = shown

\* Mutant: a cell that has a pending value keeps it (dict.setdefault).
StoreUpdateKeepsFirst(upd, row, col_heading, new_val_str, new_val) ==
    IF ~(\E i \in DOMAIN upd : upd[i].dir = row)
    THEN Append(upd, [dir |-> row,
                      updates |-> [k \in {col_heading} |-> StrVal(new_val_str)]])
    ELSE [i \in DOMAIN upd |->
            IF upd[i].dir = row /\ col_heading \notin DOMAIN upd[i].updates
            THEN [upd[i] EXCEPT !.updates =
                    [k \in DOMAIN @ \cup {col_heading} |->
                        IF k = col_heading THEN new_val ELSE @[k]]]
            ELSE upd[i]]

\* Mutant: the entry is recorded under the key of the first column.
StoreUpdateUnderFirstColumn(upd, row, col_heading, new_val_str, new_val) ==
    IF ~IsDirty(upd, row)
    THEN Append(upd, [dir |-> row,
                      updates |-> DictSet(EmptyDict, cols[1].key, StrVal(new_val_str))])
    ELSE [i \in DOMAIN upd |->
            IF upd[i].dir = row
            THEN [upd[i] EXCEPT !.updates = DictSet(@, cols[1].key, new_val)]
            ELSE upd[i]]

\* lines 329-332: the pending entry recorded for (row, col_heading).
StoreUpdate(upd, row, col_heading, new_val_str, new_val) ==
    IF ~IsDirty(upd, row)
    THEN Append(upd, [dir |-> row,
                      updates |-> DictSet(EmptyDict, col_heading, StrVal(new_val_str))])
    ELSE [i \in DOMAIN upd |->
            IF upd[i].dir = row
            THEN [upd[i] EXCEPT !.updates = DictSet(@, col_heading, new_val)]
            ELSE upd[i]]

\* Mutant: a rejected edit drops the record's pending edits.
UpdatesAfterRejectDropsPending(upd, row, col) ==
    SelectSeq(upd, LAMBDA e : e.dir # row)

\* lines 321-325: the except branch returns with the pending edits as they were.
UpdatesAfterReject(upd, row, col) == upd

\* ChartDataTable._on_edit_confirmation for the cell (row, col) that
\* _on_double_click_treeview put under edit, with content typed in the field.
on_edit_confirmation(tv, upd, row, col, content) ==
    LET new_val_str == Strip(EditFieldGet(content))
        col_spec == get_column_specification(col)
        new_val == CallFromStr(col_spec, new_val_str)
    IN IF SameAsShown(new_val_str, tv[row][col])
       THEN [treeview |-> tv, updates |-> upd, outcome |-> "same"]
       ELSE IF IsError(new_val)
       THEN [treeview |-> tv, updates |-> UpdatesAfterReject(upd, row, col),
             outcome |-> "rejected"]
       ELSE [treeview |-> [tv EXCEPT ![row][col] = new_val_str],
             updates |-> StoreUpdate(upd, row, get_column_heading(col),
                                     new_val_str, new_val),
             outcome |-> "accepted"]

HasPending(upd, row, key) == IsDirty(upd, row) /\ key \in DOMAIN UpdatesOf(upd, row)

\* Mutant: an accepted edit also assigns the value to the loaded record.
EditCellMutatesRecord(row, col, content) ==
    /\ ops_left > 0
    /\ get_column_heading(col) # DIR_KEY
    /\ LET r == on_edit_confirmation(treeview, chart_updates_by_dir, row, col, content)
       IN /\ treeview' = r.treeview
          /\ chart_updates_by_dir' = r.updates
          /\ tags' = IF r.outcome = "accepted" THEN color_lines(items, r.updates) ELSE tags
          /\ chart_data_by_dir' =
                IF r.outcome = "accepted"
                THEN [chart_data_by_dir EXCEPT ![row] =
                        DictSet(@, get_column_heading(col), StrVal(r.treeview[row][col]))]
                ELSE chart_data_by_dir
          /\ last' = Op("edit", r.outcome,
                        HasPending(chart_updates_by_dir, row, get_column_heading(col)))
    /\ ops_left' = ops_left - 1
    /\ UNCHANGED <<disk, errors, items, sorted_column, sorted_reverse>>

\* A double click on the cell (row, col), content typed, then Return.
EditCell(row, col, content) ==
    /\ ops_left > 0
    /\ get_column_heading(col) # DIR_KEY
    /\ LET r == on_edit_confirmation(treeview, chart_updates_by_dir, row, col, content)
       IN /\ treeview' = r.treeview
          /\ chart_updates_by_dir' = r.updates
          /\ tags' = IF r.outcome = "accepted" THEN color_lines(items, r.updates) ELSE tags
          /\ last' = Op("edit", r.outcome,
                        HasPending(chart_updates_by_dir, row, get_column_heading(col)))
    /\ ops_left' = ops_left - 1
    /\ UNCHANGED <<disk, chart_data_by_dir, errors, items, sorted_column, sorted_reverse>>

\* ------------------------------------------------------------ header clicks
\* Mutant: the flag is flipped but the rows are always sorted ascending.
ClickHeadingSortsAscending(col) ==
    /\ ops_left > 0
    /\ items' = sort_by_column(items, treeview, col, FALSE)
    /\ sorted_column' = col
    /\ sorted_reverse' = IF sorted_column = col THEN ~sorted_reverse ELSE FALSE
    /\ tags' = color_lines(items', chart_updates_by_dir)
    /\ ops_left' = ops_left - 1
    /\ last' = Op("click", "-", FALSE)
    /\ UNCHANGED <<disk, chart_data_by_dir, errors, treeview, chart_updates_by_dir>>

\* ChartDataTable._on_click_treeview on the heading of column col.
ClickHeading(col) ==
    /\ ops_left > 0
    /\ IF sorted_column = col
       THEN /\ items' = sort_by_column(items, treeview, col, ~sorted_reverse)
            /\ sorted_reverse' = ~sorted_reverse
            /\ UNCHANGED sorted_column
       ELSE /\ items' = sort_by_column(items, treeview, col, FALSE)
            /\ sorted_column' = col
            /\ sorted_reverse' = FALSE
    /\ tags' = color_lines(items', chart_updates_by_dir)
    /\ ops_left' = ops_left - 1
    /\ last' = Op("click", "-", FALSE)
    /\ UNCHANGED <<disk, chart_data_by_dir, errors, treeview, chart_updates_by_dir>>

\* -------------------------------------------------------------- apply_edits
WriteOutcomes == {"ok", "open_fails", "dump_fails"}

\* lines 362-367: the document written for a freshly read chart_data.
Merge(chart_data, updates) ==
    DictDel(DictUpdate(chart_data, updates),
            {key \in DOMAIN updates : updates[key] = None})

\* One iteration of the loop of apply_edits on the file f of entry.dir: the
\* file it leaves and the errors it appends.  open(mode="w") that fails leaves
\* the file as it was; json.dump that fails leaves a truncated file.
apply_one(f, entry, outcome) ==
    IF f.kind \in {"file", "missing", "badjson"}
    THEN [file |-> f,
          errors |-> <<ChartError(entry.dir, "Error",
                          "Could not read chart data to update, song skipped.")>>]
    ELSE IF f.kind # "object"
    THEN [file |-> f,
          errors |-> <<ChartError(entry.dir, "Error",
                          "JSON data from is not a dictionary, song skipped.")>>]
    ELSE IF outcome = "ok"
    THEN [file |-> File("object", Merge(f.doc, entry.updates)), errors |-> <<>>]
    ELSE [file |-> IF outcome = "open_fails" THEN f ELSE NoFile("badjson"),
          errors |-> <<ChartError(entry.dir, "Error",
                          "Could not update chart data file.")>>]

\* Mutant: the loop ends at the first record that fails (break for continue).
RECURSIVE apply_loop_breaks(_, _, _)
apply_loop_breaks(upd, dsk, w) ==
    IF upd = <<>> THEN [disk |-> dsk, errors |-> <<>>]
    ELSE LET entry == Head(upd)
             one == apply_one(dsk[entry.dir], entry, w[entry.dir])
             rest == IF one.errors # <<>> THEN [disk |-> dsk, errors |-> <<>>]
                     ELSE apply_loop_breaks(Tail(upd),
                                            [dsk EXCEPT ![entry.dir] = one.file], w)
         IN [disk |-> rest.disk, errors |-> one.errors \o rest.errors]

\* lines 337-381: the loop over the dirty records, w giving the outcome of
\* each record's write.
RECURSIVE apply_loop(_, _, _)
apply_loop(upd, dsk, w) ==
    IF upd = <<>> THEN [disk |-> dsk, errors |-> <<>>]
    ELSE LET entry == Head(upd)
             one == apply_one(dsk[entry.dir], entry, w[entry.dir])
             rest == apply_loop(Tail(upd), [dsk EXCEPT ![entry.dir] = one.file], w)
         IN [disk |-> rest.disk, errors |-> one.errors \o rest.errors]

\* Mutant: apply_edits never clears the pending edits.
UpdatesAfterApplyKeepsAll(upd, errs) == upd

\* line 383: the pending edits left after the loop.
UpdatesAfterApply(upd, errs) == <<>>

\* Mutant: apply_edits without its closing _color_lines() (line 386).
ApplyEditsWithStaleTags(w) ==
    /\ ops_left > 0
    /\ LET r == apply_loop(chart_updates_by_dir, disk, w)
       IN /\ disk' = r.disk
          /\ errors' = r.errors
          /\ chart_updates_by_dir' = UpdatesAfterApply(chart_updates_by_dir, r.errors)
    /\ ops_left' = ops_left - 1
    /\ last' = Op("apply", "-", chart_updates_by_dir # <<>>)
    /\ UNCHANGED <<chart_data_by_dir, items, treeview, tags, sorted_column, sorted_reverse>>

\* ChartDataTable.apply_edits ("Apply edits" of the File menu).
ApplyEditsWith(w) ==
    /\ ops_left > 0
    /\ LET r == apply_loop(chart_updates_by_dir, disk, w)
       IN /\ disk' = r.disk
          /\ errors' = r.errors
          /\ chart_updates_by_dir' = UpdatesAfterApply(chart_updates_by_dir, r.errors)
          /\ tags' = color_lines(items, chart_updates_by_dir')
    /\ ops_left' = ops_left - 1
    /\ last' = Op("apply", "-", chart_updates_by_dir # <<>>)
    /\ UNCHANGED <<chart_data_by_dir, items, treeview, sorted_column, sorted_reverse>>

ApplyEdits ==
    \E w \in [DirtySet(chart_updates_by_dir) -> WriteOutcomes] : ApplyEditsWith(w)

\* ------------------------------------------------------ out-of-band writers
\* Another program rewrites the song.tmb of a loaded record.
ExternalChange(dir, f) ==
    /\ ops_left > 0
    /\ f # disk[dir]
    /\ disk' = [disk EXCEPT ![dir] = f]
    /\ ops_left' = ops_left - 1
    /\ last' = Op("external", "-", FALSE)
    /\ UNCHANGED <<chart_data_by_dir, errors, items, treeview, tags,
                   chart_updates_by_dir, sorted_column, sorted_reverse>>

Rows == DOMAIN chart_data_by_dir

Next ==
    \/ \E row \in Rows, col \in ColIds, content \in RawTexts : EditCell(row, col, content)
    \/ \E col \in ColIds : ClickHeading(col)
    \/ ApplyEdits
    \/ \E dir \in Rows : \E f \in ExternalFiles(disk[dir]) : ExternalChange(dir, f)

Spec == Init /\ [][Next]_vars

\* The program started on SortRoot, listed in any order.
SortInit == \E l \in Listings(SortRoot) : Construct(l, SortRoot, MaxSortOps)
SortSpec == SortInit /\ [][Next]_vars

\* The same program, explored over a shorter run.
ShortInit == Construct(Listing, Root, MaxShortOps)
SpecShort == ShortInit /\ [][Next]_vars

\* The program started on a directory of three entries, each of them a plain
\* file, a directory without song.tmb, or a directory whose song.tmb json.load
\* rejects, holds JSON that is no object, or holds an object; listed in any
\* order.
LoadKinds == {"file", "missing", "badjson", "nonobject", "object"}

LoadRoot(kinds) ==
    [e \in DOMAIN kinds |->
        IF kinds[e] = "object" THEN SortRoot[e] ELSE NoFile(kinds[e])]

LoadInit ==
    \E kinds \in [DOMAIN SortRoot -> LoadKinds], l \in Listings(SortRoot) :
        Construct(l, LoadRoot(kinds), MaxLoadOps)

LoadSpec == LoadInit /\ [][Next]_vars

\* ================================================================== claims
ErrorsFor(errs, dir) == Cardinality({i \in DOMAIN errs : errs[i].chart = dir})
PendingKeys(upd, dir) == IF IsDirty(upd, dir) THEN DOMAIN UpdatesOf(upd, dir) ELSE {}
EditableCols == {c \in ColIds : cols[c].key # DIR_KEY}
ApplyStep == last'.op = "apply"
EditStep(outcome) == last'.op = "edit" /\ last'.outcome = outcome

\* new is old with the pending edits u merged in: a pending None removes the
\* key, any other pending value replaces it, every other key is as in old.
MergedDoc(old, u, new) ==
    /\ DOMAIN new = (DOMAIN old \cup DOMAIN u) \ {k \in DOMAIN u : u[k] = None}
    /\ \A k \in DOMAIN new : new[k] = IF k \in DOMAIN u THEN u[k] ELSE old[k]

\* C1: after apply_edits every dirty record whose read, parse, shape check or
\* write failed keeps all its pending edits, and only the records persisted
\* successfully have their pending edits cleared.
C1_FailedRecordsStayDirty ==
    [][ApplyStep =>
        \A i \in DOMAIN chart_updates_by_dir :
            LET e == chart_updates_by_dir[i]
            IN IF ErrorsFor(errors', e.dir) > 0
               THEN /\ IsDirty(chart_updates_by_dir', e.dir)
                    /\ UpdatesOf(chart_updates_by_dir', e.dir) = e.updates
               ELSE ~IsDirty(chart_updates_by_dir', e.dir)]_vars

\* Every pending non-delete entry is the typed value its column's converter
\* makes of the text the cell shows.
PendingIsTyped(upd, tv) ==
    \A row \in DirtySet(upd), c \in EditableCols :
        LET typed == CallFromStr(cols[c], tv[row][c])
        IN (cols[c].key \in PendingKeys(upd, row) /\ typed # None)
              => UpdatesOf(upd, row)[cols[c].key] = typed

\* C2: an accepted edit of a non-delete value leaves the converter's typed
\* value as the pending entry, whether or not the record was dirty before, and
\* a successful apply_edits writes that typed value under the column's key.
C2_TypedValueStagedAndPersisted ==
    [][/\ PendingIsTyped(chart_updates_by_dir', treeview')
       /\ ApplyStep =>
            \A row \in DirtySet(chart_updates_by_dir), c \in EditableCols :
                LET typed == CallFromStr(cols[c], treeview[row][c])
                    key == cols[c].key
                IN (/\ key \in PendingKeys(chart_updates_by_dir, row)
                    /\ typed # None
                    /\ ErrorsFor(errors', row) = 0)
                   => /\ key \in DOMAIN disk'[row].doc
                      /\ disk'[row].doc[key] = typed]_vars

\* C3: deleting (empty text) a note colour or UNK1 whose key is in the file,
\* then a successful apply_edits, leaves a file without that key and with
\* every key that has no pending edit as it was.
C3_DeleteRemovesKey ==
    [][ApplyStep =>
        \A row \in DirtySet(chart_updates_by_dir), c \in EditableCols :
            LET key == cols[c].key
            IN (/\ cols[c].from_str \in {"note_color_from_str",
                                          "positive_int_or_none_from_str"}
                /\ key \in PendingKeys(chart_updates_by_dir, row)
                /\ treeview[row][c] = <<>>
                /\ disk[row].kind = "object"
                /\ key \in DOMAIN disk[row].doc
                /\ ErrorsFor(errors', row) = 0)
               => /\ key \notin DOMAIN disk'[row].doc
                  /\ \A k \in DOMAIN disk[row].doc
                            \ PendingKeys(chart_updates_by_dir, row) :
                        /\ k \in DOMAIN disk'[row].doc
                        /\ disk'[row].doc[k] = disk[row].doc[k]]_vars

\* C4: a successful apply_edits of a dirty record keeps every key of the file
\* that has no pending edit, schema key or not, with the value the file held
\* just before, also when that value was written out-of-band after the load.
C4_UntouchedKeysSurvive ==
    [][ApplyStep =>
        \A row \in DirtySet(chart_updates_by_dir) :
            (disk[row].kind = "object" /\ ErrorsFor(errors', row) = 0)
            => /\ disk'[row].kind = "object"
               /\ \A k \in DOMAIN disk[row].doc
                         \ PendingKeys(chart_updates_by_dir, row) :
                     /\ k \in DOMAIN disk'[row].doc
                     /\ disk'[row].doc[k] = disk[row].doc[k]]_vars

\* A record was persisted over a file changed out-of-band since the load.
C4_Witness ==
    /\ last.op = "apply"
    /\ \E row \in Rows :
          /\ ErrorsFor(errors, row) = 0
          /\ disk[row].kind = "object"
          /\ "notes" \in DOMAIN disk[row].doc
          /\ disk[row].doc["notes"] = StrVal(<<"c">>)
          /\ chart_data_by_dir[row]["notes"] # StrVal(<<"c">>)
          /\ disk[row] \notin ExternalFiles(File("object", chart_data_by_dir[row]))

ColOf(key) == CHOOSE c \in ColIds : cols[c].key = key

\* C5: an edit whose text the column's converter rejects ("11" for
\* difficulty, "foo bar" for a note colour) leaves the pending edits, with any
\* earlier pending value of the cell, the dirty rows and the shown texts as
\* they were.
C5_RejectedEditChangesNothing ==
    [][/\ EditStep("rejected") => UNCHANGED <<chart_updates_by_dir, treeview, tags>>
       /\ \A row \in Rows :
             \/ EditCell(row, ColOf("difficulty"), T_11)
             \/ EditCell(row, ColOf("note_color_start"), T_foo_bar)
             => /\ last'.outcome = "rejected"
                /\ UNCHANGED <<chart_updates_by_dir, treeview, tags>>]_vars

\* A rejected edit of a cell that had a pending value.
C5_Witness ==
    /\ last.op = "edit"
    /\ last.outcome = "rejected"
    /\ last.was_pending

\* C7: an accepted edit B of a cell that has a pending value A leaves one
\* entry for the cell, the typed value of B, and every other pending entry,
\* of the same record and of the others, as it was.
C7_LastWriteWins ==
    [][(EditStep("accepted") /\ last'.was_pending) =>
        \E row \in Rows, c \in EditableCols :
            LET key == cols[c].key
                B == treeview'[row][c]
            IN /\ key \in PendingKeys(chart_updates_by_dir, row)
               /\ B # treeview[row][c]
               /\ \A r2 \in Rows, c2 \in ColIds :
                     (r2 # row \/ c2 # c) => treeview'[r2][c2] = treeview[r2][c2]
               /\ Len(chart_updates_by_dir') = Len(chart_updates_by_dir)
               /\ UpdatesOf(chart_updates_by_dir', row)[key] = CallFromStr(cols[c], B)
               /\ \A i \in DOMAIN chart_updates_by_dir :
                     LET old == chart_updates_by_dir[i]
                         new == chart_updates_by_dir'[i]
                     IN /\ new.dir = old.dir
                        /\ DOMAIN new.updates = DOMAIN old.updates
                        /\ \A k \in DOMAIN old.updates :
                              (old.dir # row \/ k # key)
                              => new.updates[k] = old.updates[k]]_vars

\* An accepted edit of a cell that had a pending value, on a record with
\* another pending entry or beside another dirty record.
C7_Witness ==
    /\ last.op = "edit"
    /\ last.outcome = "accepted"
    /\ last.was_pending
    /\ \E i \in DOMAIN chart_updates_by_dir :
          Cardinality(DOMAIN chart_updates_by_dir[i].updates) + Len(chart_updates_by_dir) > 2

\* C8: confirming the same text for the same cell twice in a row leaves the
\* pending edits, the dirty rows and the shown texts as the first
\* confirmation left them.
C8_StagingIdempotent ==
    \A row \in Rows, c \in EditableCols, content \in RawTexts :
        LET s1 == on_edit_confirmation(treeview, chart_updates_by_dir, row, c, content)
            s2 == on_edit_confirmation(s1.treeview, s1.updates, row, c, content)
        IN /\ s2.treeview = s1.treeview
           /\ s2.updates = s1.updates
           /\ color_lines(items, s2.updates) = color_lines(items, s1.updates)

\* The text a pending cell shows was confirmed once more.
C8_Witness ==
    /\ last.op = "edit"
    /\ last.outcome = "same"
    /\ last.was_pending

\* C6: in one apply_edits a record that fails (read, parse, shape or write)
\* neither stops nor undoes another: every dirty record whose own read and
\* write succeed ends with its merged document in its file, and each failed
\* record is reported by exactly one error.
C6_FailuresAreIndependent ==
    [][\A w \in [DirtySet(chart_updates_by_dir) -> WriteOutcomes] :
         ApplyEditsWith(w) =>
            /\ \A i \in DOMAIN chart_updates_by_dir :
                  LET e == chart_updates_by_dir[i]
                      failed == disk[e.dir].kind # "object" \/ w[e.dir] # "ok"
                  IN /\ ErrorsFor(errors', e.dir) = IF failed THEN 1 ELSE 0
                     /\ ~failed =>
                           /\ disk'[e.dir].kind = "object"
                           /\ MergedDoc(disk[e.dir].doc, e.updates, disk'[e.dir].doc)
            /\ \A j \in DOMAIN errors' : IsDirty(chart_updates_by_dir, errors'[j].chart)]_vars

\* One dirty record failed and another was persisted in the same pass.
C6_Witness ==
    /\ last.op = "apply"
    /\ Len(errors) = 1
    /\ \E row \in Rows :
          /\ ErrorsFor(errors, row) = 0
          /\ disk[row].kind = "object"
          /\ disk[row] # Root[row]
          /\ disk[row].doc["notes"] = Root[row].doc["notes"]

Pos(seq, x) == CHOOSE i \in DOMAIN seq : seq[i] = x
Reverse(seq) == [i \in 1..Len(seq) |-> seq[Len(seq) + 1 - i]]

\* A click on the header the previous operation sorted by, ascending.
SecondClick ==
    /\ last.op = "click"
    /\ ~sorted_reverse
    /\ last'.op = "click"
    /\ sorted_column' = sorted_column

\* C9 as claimed: the second sort by the same column yields the exact reverse
\* of the first sort's row sequence, rows of equal text included.
C9_SecondSortIsExactReverse ==
    [][SecondClick => items' = Reverse(items)]_vars

\* C9 as amended: the second sort by the same column puts rows of different
\* text in the reverse of their order after the first sort and keeps rows of
\* equal text in that order; it is the exact reverse when no two rows show the
\* same text in the column.
C9_SecondSortReversesDistinctTexts ==
    [][SecondClick =>
        LET c == sorted_column
        IN /\ sorted_reverse'
           /\ \A i, j \in DOMAIN items :
                 i < j =>
                    IF treeview[items[i]][c] = treeview[items[j]][c]
                    THEN Pos(items', items[i]) < Pos(items', items[j])
                    ELSE Pos(items', items[i]) > Pos(items', items[j])
           /\ (\A i, j \in DOMAIN items :
                 i # j => treeview[items[i]][c] # treeview[items[j]][c])
              => items' = Reverse(items)]_vars

\* Two clicks on one header, of a column where two rows show the same text
\* and a third another.
C9_Witness ==
    /\ last.op = "click"
    /\ sorted_reverse
    /\ ops_left + 2 = MaxSortOps
    /\ \E r1, r2, r3 \in Rows :
          /\ r1 # r2
          /\ treeview[r1][sorted_column] = treeview[r2][sorted_column]
          /\ treeview[r1][sorted_column] # treeview[r3][sorted_column]

\* new is old sorted by the text tv shows in column c, ascending or (rev)
\* descending, rows of equal text in the order they had in old.
SortedStable(old, new, tv, c, rev) ==
    /\ Len(new) = Len(old)
    /\ {new[i] : i \in DOMAIN new} = {old[i] : i \in DOMAIN old}
    /\ \A i, j \in DOMAIN new :
          i < j =>
             LET ki == tv[new[i]][c]
                 kj == tv[new[j]][c]
             IN /\ IF rev THEN ~StrLess(ki, kj) ELSE ~StrLess(kj, ki)
                /\ ki = kj => Pos(old, new[i]) < Pos(old, new[j])

LoadedText(row, c) == InitialRow(row, chart_data_by_dir[row])[c]

\* The text of a cell as the claim defines it.
PendingElseLoadedText ==
    [row \in Rows |->
        [c \in ColIds |->
            IF cols[c].key \in PendingKeys(chart_updates_by_dir, row)
            THEN treeview[row][c]
            ELSE LoadedText(row, c)]]

\* C10 as claimed: a sort orders the rows, stably and in the requested
\* direction, by the post-edit text of a cell that has a pending edit and by the
\* loaded value as text otherwise.
C10_SortedByPendingElseLoadedText ==
    [][last'.op = "click" =>
        SortedStable(items, items', PendingElseLoadedText,
                     sorted_column', sorted_reverse')]_vars

\* C10 as amended: a sort orders the rows, stably and in the requested
\* direction, by the text the cells show: the loaded value as text at first,
\* and, once an edit of the cell was accepted, the text of the latest such
\* edit, whether it is still pending or was cleared by apply_edits.
C10_SortedByShownText ==
    /\ \A row \in Rows, c \in ColIds : treeview[row][c] = LoadedText(row, c)
    /\ [][/\ last'.op = "click" =>
               SortedStable(items, items', treeview, sorted_column', sorted_reverse')
          /\ \A row \in Rows, c \in ColIds :
                treeview'[row][c] # treeview[row][c] =>
                   /\ EditStep("accepted")
                   /\ cols[c].key \in PendingKeys(chart_updates_by_dir', row)
                   /\ UpdatesOf(chart_updates_by_dir', row)[cols[c].key]
                         \in {StrVal(treeview'[row][c]),
                              CallFromStr(cols[c], treeview'[row][c])}]_vars

\* A sort by a column where two rows show the same text, one of them an
\* edited text.
C10_Witness ==
    /\ last.op = "click"
    /\ \E r1, r2 \in Rows :
          /\ r1 # r2
          /\ treeview[r1][sorted_column] = treeview[r2][sorted_column]
          /\ treeview[r1][sorted_column] # LoadedText(r1, sorted_column)

\* C11: a click on the header of the active sort column flips the descending
\* flag and keeps the column; a click on any other header makes it the active
\* column with the flag false; either way the rows are sorted anew in the
\* direction the flag then has, and no other operation changes column or flag.
C11_HeaderClickSetsColumnAndDirection ==
    [][/\ \A col \in ColIds :
             ClickHeading(col) =>
                /\ sorted_column' = col
                /\ sorted_reverse' = IF sorted_column = col THEN ~sorted_reverse ELSE FALSE
                /\ SortedStable(items, items', treeview, col, sorted_reverse')
       /\ last'.op # "click" => UNCHANGED <<sorted_column, sorted_reverse, items>>]_vars

\* The active header was clicked again and the rows came out descending, two
\* of them with different texts in the column.
C11_Witness ==
    /\ last.op = "click"
    /\ sorted_reverse
    /\ \E i, j \in DOMAIN items :
          /\ i < j
          /\ StrLess(treeview[items[j]][sorted_column], treeview[items[i]][sorted_column])

\* The columns that are neither optional (note colours, UNK1) nor the
\* free-text description column.
RequiredCols ==
    {c \in EditableCols :
        /\ cols[c].key # "description"
        /\ cols[c].from_str \notin {"note_color_from_str", "positive_int_or_none_from_str"}}

\* C12: confirming empty text for a cell of a column that is neither optional
\* nor description (the single-line string columns and the numeric columns) is
\* never accepted: nothing becomes pending and the cell shows what it showed.
C12_EmptyTextRejected ==
    [][\A row \in Rows, c \in RequiredCols :
          EditCell(row, c, T_empty) =>
             /\ last'.outcome # "accepted"
             /\ UNCHANGED <<chart_updates_by_dir, treeview, tags>>]_vars

\* C13: confirming for a description cell any text, of one line or several,
\* that differs from the text the cell shows is accepted: the record is dirty
\* afterwards and the text is the pending value of the cell.
C13_DescriptionAlwaysAccepted ==
    [][\A row \in Rows, content \in RawTexts :
          LET c == ColOf("description")
              text == Strip(EditFieldGet(content))
          IN (EditCell(row, c, content) /\ text # treeview[row][c]) =>
                /\ last'.outcome = "accepted"
                /\ treeview'[row][c] = text
                /\ "description" \in PendingKeys(chart_updates_by_dir', row)
                /\ UpdatesOf(chart_updates_by_dir', row)["description"] = StrVal(text)]_vars

\* C14: after every operation (edit, sort by any column in either direction,
\* apply_edits) a row carries the edited tag exactly when its record is a key
\* of the pending edits, and every record has a row and a tag.
C14_EditedTagIffPending ==
    /\ DOMAIN tags = Rows
    /\ \A row \in Rows :
          tags[row] = "edited" <=> IsDirty(chart_updates_by_dir, row)

\* apply_edits ran on a dirty record, after which a sort moved the rows.
C14_Witness ==
    /\ last.op = "click"
    /\ chart_updates_by_dir = <<>>
    /\ Len(items) > 1
    /\ items[1] # Listing[1]
    /\ \E row \in Rows, c \in ColIds : treeview[row][c] # LoadedText(row, c)

\* The entries of the directory that are directories, well-formed (song.tmb
\* holds a JSON object) and malformed.
WellFormed(root) == {e \in DOMAIN root : root[e].kind = "object"}
Malformed(root) == {e \in DOMAIN root : root[e].kind \in {"missing", "badjson", "nonobject"}}

\* C15: the load of a directory with N well-formed record directories and M
\* malformed ones, in any mix, yields exactly the N records, each keyed by its
\* directory name and holding its document, and exactly M errors, one per
\* malformed directory, a Warning for a missing song.tmb and an Error for
\* unparseable or non-object JSON; an entry that is no directory yields
\* neither a record nor an error.
C15_PartialLoadTolerance ==
    last.op = "init" =>
        /\ DOMAIN chart_data_by_dir = WellFormed(disk)
        /\ \A e \in WellFormed(disk) : chart_data_by_dir[e] = disk[e].doc
        /\ {items[i] : i \in DOMAIN items} = WellFormed(disk)
        /\ Len(items) = Cardinality(WellFormed(disk))
        /\ Len(errors) = Cardinality(Malformed(disk))
        /\ \A e \in Malformed(disk) :
              /\ ErrorsFor(errors, e) = 1
              /\ \A i \in DOMAIN errors :
                    errors[i].chart = e =>
                       errors[i].severity =
                          IF disk[e].kind = "missing" THEN "Warning" ELSE "Error"

\* A load of one well-formed record beside two malformed directories of
\* different severity.
C15_Witness ==
    /\ last.op = "init"
    /\ Cardinality(DOMAIN chart_data_by_dir) = 1
    /\ Len(errors) = 2
    /\ errors[1].severity = "Warning"
    /\ errors[2].severity = "Error"

\* C16: an edit, accepted or rejected, and a sort leave every file and the
\* loaded record map as they were; apply_edits leaves the loaded record map as
\* it was and changes only files of records that had pending edits; so the
\* record map is at all times the one the load built.
C16_OnlyApplyEditsWritesFiles ==
    /\ chart_data_by_dir = read_chart_data(Listing, Root).data
    /\ [][/\ last'.op \in {"edit", "click"} => UNCHANGED <<disk, chart_data_by_dir>>
          /\ ApplyStep =>
                /\ UNCHANGED chart_data_by_dir
                /\ \A e \in DOMAIN disk :
                      disk'[e] # disk[e] => IsDirty(chart_updates_by_dir, e)]_vars

\* Two records were edited and the rows sorted, with no apply_edits so far.
C16_Witness ==
    /\ last.op = "click"
    /\ Len(chart_updates_by_dir) = 2
    /\ ops_left = 0

\* The files one apply_edits opens for reading (line 339) and for writing
\* (line 370): a file is read for every dirty record and written when what
\* was read is a JSON object.
FilesRead(upd) == DirtySet(upd)
FilesWritten(upd, dsk) == {dir \in DirtySet(upd) : dsk[dir].kind = "object"}

\* C17: apply_edits with no pending edits reads no file, writes no file,
\* leaves every file as it was and reports no error; so does an apply_edits
\* that directly follows one in which every dirty record was persisted.
C17_NoOpFlush ==
    [][ApplyStep =>
        /\ chart_updates_by_dir = <<>> =>
              /\ FilesRead(chart_updates_by_dir) = {}
              /\ FilesWritten(chart_updates_by_dir, disk) = {}
              /\ disk' = disk
              /\ errors' = <<>>
        /\ (last.op = "apply" /\ last.was_pending /\ errors = <<>>) =>
              /\ FilesWritten(chart_updates_by_dir, disk) = {}
              /\ disk' = disk
              /\ errors' = <<>>]_vars

\* An edit was accepted and persisted, and apply_edits was run once more.
C17_Witness ==
    /\ last.op = "apply"
    /\ ~last.was_pending
    /\ ops_left = 0
    /\ errors = <<>>
    /\ \E row \in Rows, c \in EditableCols :
          /\ treeview[row][c] # LoadedText(row, c)
          /\ disk[row].kind = "object"
          /\ disk[row] # Root[row]

\* v is a value the converter of col_spec returns for some accepted text.
AcceptedBy(col_spec, v) ==
    CASE col_spec.from_str = "one_line_from_str" -> v.t = "str" /\ NumLines(v.s) <= 1
      [] col_spec.from_str = "positive_int_from_str" -> v.t = "int" /\ v.i >= 0
      [] col_spec.from_str = "positive_float_from_str" -> v.t = "float" /\ v.f >= 0
      [] col_spec.from_str = "positive_int_or_none_from_str" ->
            v = None \/ (v.t = "int" /\ v.i >= 0)
      [] col_spec.from_str = "difficulty_from_str" -> v.t = "int" /\ v.i >= 1 /\ v.i <= 10
      [] col_spec.from_str = "note_color_from_str" ->
            v = None \/ (/\ v.t = "list"
                         /\ Len(v.l) = 3
                         /\ \A i \in 1..3 : v.l[i] >= 0 /\ v.l[i] <= 10)
      [] col_spec.from_str = "None" -> v.t = "str"

\* C18: in every state every pending entry is a value its column's converter
\* accepts: an integer in 1..10 for difficulty, a non-negative integer for
\* year (or None for UNK1), a non-negative number for tempo, three numbers in
\* [0, 1] or None for a note colour, a string of at most one line for a
\* single-line string column.
C18_PendingValuesAreTyped ==
    \A row \in DirtySet(chart_updates_by_dir) :
        \A key \in PendingKeys(chart_updates_by_dir, row) :
            AcceptedBy(cols[ColOf(key)], UpdatesOf(chart_updates_by_dir, row)[key])

\* C19: in every state the rows of the Treeview are the loaded records, each
\* exactly once, whatever sorts, edits and apply_edits runs, failed ones
\* included, came before; every row has its cells.
C19_RowsArePermutationOfRecords ==
    /\ Len(items) = Cardinality(Rows)
    /\ {items[i] : i \in DOMAIN items} = Rows
    /\ DOMAIN treeview = Rows

\* A record was edited, the rows were sorted into another order, and an
\* apply_edits failed on the record.
C19_Witness ==
    /\ last.op = "apply"
    /\ last.was_pending
    /\ errors # <<>>
    /\ sorted_column # 0
    /\ Len(items) > 1
    /\ items[1] # Listing[1]

EditableKeys == {cols[c].key : c \in EditableCols}

\* Every pending key is the key of an editable column, so never "Directory".
PendingKeysAreEditable(upd) ==
    \A row \in DirtySet(upd) :
        /\ PendingKeys(upd, row) \subseteq EditableKeys
        /\ DIR_KEY \notin PendingKeys(upd, row)

\* The keys in which the documents old and new differ.
ChangedKeys(old, new) ==
    {k \in DOMAIN old \cup DOMAIN new :
        \/ k \notin DOMAIN old
        \/ k \notin DOMAIN new
        \/ old[k] # new[k]}

\* C20: the Directory column is never staged: in every state every pending
\* key is the key of an editable column and never "Directory"; an apply_edits
\* that rewrites a record's document sets or deletes keys of editable columns
\* only, never a "Directory" key, and writes no file but the record's own.
C20_DirectoryNeverStaged ==
    /\ PendingKeysAreEditable(chart_updates_by_dir)
    /\ [][/\ PendingKeysAreEditable(chart_updates_by_dir')
          /\ ApplyStep =>
                \A e \in DOMAIN disk :
                   /\ disk'[e] # disk[e] => IsDirty(chart_updates_by_dir, e)
                   /\ (disk[e].kind = "object" /\ disk'[e].kind = "object") =>
                         /\ ChangedKeys(disk[e].doc, disk'[e].doc) \subseteq EditableKeys
                         /\ DIR_KEY \notin ChangedKeys(disk[e].doc, disk'[e].doc)]_vars

\* An apply_edits persisted pending edits of two columns of one record.
C20_Witness ==
    /\ last.op = "apply"
    /\ last.was_pending
    /\ errors = <<>>
    /\ \E row \in Rows :
          /\ disk[row].kind = "object"
          /\ Cardinality(ChangedKeys(Root[row].doc, disk[row].doc)) = 2
          /\ "notes" \notin ChangedKeys(Root[row].doc, disk[row].doc)
          /\ \A c \in EditableCols : treeview[row][c] # LoadedText(row, c) <=>
                cols[c].key \in ChangedKeys(Root[row].doc, disk[row].doc)

====
